---- MODULE Spec2Model ----
(***************************************************************************)
(* obsctl-reloader (src/run.py): a single-threaded loop that reads the     *)
(* PrometheusRules of a cluster, groups their rule groups per tenant and   *)
(* publishes every tenant's bundle through the obsctl command line tool.   *)
(*                                                                         *)
(* The model follows main() statement by statement.  Every call of run()   *)
(* is one step whose outcome (exit status of the external command) is      *)
(* chosen by the environment.  Python exceptions are modelled by the       *)
(* control state: exc is the exception in flight while a finally / with    *)
(* block is unwinding, failure is the exception that left main().          *)
(***************************************************************************)
EXTENDS Naturals, Sequences, FiniteSets, TLC

VARIABLES
    pc,                 \* statement of main() that runs next
    env,                \* os.environ, as far as the program reads it
    prometheus_rules,   \* main(): prometheus_rules (last snapshot read)
    tenant_rules,       \* main(): tenant_rules (insertion-ordered dict)
    idx,                \* position of the for loop in tenant_rules.items()
    exc,                \* exception in flight inside try / with
    failure,            \* exception that terminated the process
    cmds,               \* external commands issued in the current cycle
    obsctl,             \* configuration kept by the external obsctl tool
    rule_file,          \* the NamedTemporaryFile of obsctl_metrics_set_rules
    heap                \* the list objects of the snapshot and of the dict
                        \* get_tenant_rules builds from it

vars == <<pc, env, prometheus_rules, tenant_rules, idx, exc, failure, cmds,
          obsctl, rule_file, heap>>

-----------------------------------------------------------------------------
(* Bounds of the model *)

\* longest snapshot the reader returns in the looping program
MaxRules == 2

\* longest input list handed to get_tenant_rules on its own
MaxAggRules == 3

-----------------------------------------------------------------------------
(* Data: PrometheusRule resources *)

Tenants == {"t1", "t2"}

\* Python's None, as returned by get_tenant
None == "None"

\* values of metadata.labels.tenant; a Kubernetes label value may be empty
TenantValues == Tenants \cup {""}

\* rule groups are opaque objects
GroupLists == {<<>>, <<"g1">>, <<"g2", "g1">>}

\* A resource.  hasLabels: metadata.labels is present; hasTenant: the key
\* "tenant" is present in it; hasGroups: spec.groups is present.  An absent
\* field carries a fixed filler value that no operator reads.
\* metadata.name is always present on a Kubernetes object and is only logged.
Resources ==
    { r \in [hasLabels : BOOLEAN, hasTenant : BOOLEAN, tenant : TenantValues,
             hasGroups : BOOLEAN, groups : GroupLists] :
        /\ (r.hasTenant => r.hasLabels)
        /\ (~r.hasTenant => r.tenant = "")
        /\ (~r.hasGroups => r.groups = <<>>) }

\* the resources of the cluster the looping program is run against: labels,
\* where present, carry a tenant key
ClusterResources ==
    { r \in Resources :
        r.hasLabels = r.hasTenant }

SeqsUpTo(S, n) == UNION { [1..k -> S] : k \in 0..n }

Snapshots == SeqsUpTo(ClusterResources, MaxRules)

AggInputs == SeqsUpTo(Resources, MaxAggRules)

-----------------------------------------------------------------------------
(* get_tenant, get_tenant_rules *)

\* prometheus_rule["metadata"]["labels"]["tenant"], KeyError -> None
get_tenant(prometheus_rule) ==
    IF prometheus_rule.hasLabels /\ prometheus_rule.hasTenant
    THEN prometheus_rule.tenant
    ELSE None

\* (variant) "if tenant is None": only a missing label is skipped
NotTenant_is_none(tenant) == tenant = None

\* "if not tenant": None and the empty string are falsy
NotTenant(tenant) == tenant = None \/ tenant = ""

\* (variant) rule["spec"].get("groups", []): a missing list reads as empty
spec_groups_default(rule) ==
    [err |-> FALSE, val |-> IF rule.hasGroups THEN rule.groups ELSE <<>>]

\* rule["spec"]["groups"]: the list, or KeyError
spec_groups(rule) ==
    IF rule.hasGroups THEN [err |-> FALSE, val |-> rule.groups]
    ELSE [err |-> TRUE, val |-> <<>>]

HasKey(d, tenant) == \E i \in DOMAIN d : d[i].tenant = tenant

\* (variant) a new tenant is put in front of the dict
setdefault_front(d, tenant) ==
    IF HasKey(d, tenant) THEN d
    ELSE <<[tenant |-> tenant, groups |-> <<>>]>> \o d

\* all_tenant_rules.setdefault(tenant, {"groups": []}): the dict afterwards
setdefault(d, tenant) ==
    IF HasKey(d, tenant) THEN d
    ELSE Append(d, [tenant |-> tenant, groups |-> <<>>])

\* (variant) only the groups the bundle does not hold yet are appended
extend_dedup(d, tenant, groups) ==
    [i \in DOMAIN d |->
        IF d[i].tenant = tenant
        THEN LET new(g) == \A j \in DOMAIN d[i].groups : d[i].groups[j] # g
             IN [d[i] EXCEPT !.groups = @ \o SelectSeq(groups, new)]
        ELSE d[i]]

\* tenant_rules["groups"].extend(groups): the dict afterwards
extend(d, tenant, groups) ==
    [i \in DOMAIN d |->
        IF d[i].tenant = tenant
        THEN [d[i] EXCEPT !.groups = @ \o groups]
        ELSE d[i]]

\* the initial value of all_tenant_rules
EmptyDict == <<>>

\* the body of the for loop of get_tenant_rules, run over rules[k..],
\* with acc the value of all_tenant_rules before it
RECURSIVE LoopRules(_, _, _)
LoopRules(acc, rules, k) ==
    IF k > Len(rules) THEN [err |-> FALSE, map |-> acc]
    ELSE LET tenant == get_tenant(rules[k]) IN
         IF NotTenant(tenant) THEN LoopRules(acc, rules, k + 1)
         ELSE LET g == spec_groups(rules[k]) IN
              IF g.err THEN [err |-> TRUE, map |-> EmptyDict]
              ELSE LoopRules(extend(setdefault(acc, tenant), tenant, g.val),
                             rules, k + 1)

\* (variant) the first resource is looked at before the loop: an empty list
\* is a lookup failure
get_tenant_rules_first(rules) ==
    IF rules = <<>> THEN [err |-> TRUE, map |-> EmptyDict]
    ELSE LoopRules(EmptyDict, rules, 1)

\* (variant) all_tenant_rules is not reset: the loop extends the dict of the
\* previous call
get_tenant_rules_carried(rules) == LoopRules(tenant_rules, rules, 1)

\* get_tenant_rules: err is the KeyError outcome, map the returned dict
get_tenant_rules(rules) == LoopRules(EmptyDict, rules, 1)

-----------------------------------------------------------------------------
(* The list objects get_tenant_rules works on.  tenant_rules and
   prometheus_rules hold the contents of the lists; heap holds the lists as
   objects: heap.lists[a] is the contents of the list at address a, and
   heap.all_tenant_rules is the dict of get_tenant_rules whose entries refer
   to their "groups" list by address. *)

NoObjects == [lists |-> <<>>, all_tenant_rules |-> <<>>]

HasGroups(rule) == rule.hasGroups

\* the address of the list rules[k]["spec"]["groups"]: json.loads makes one
\* list object for every list of the document, in document order
GroupsRef(rules, k) == Cardinality({ j \in 1..k : rules[j].hasGroups })

\* the objects after json.loads (line 46): the spec.groups lists of the items
loads_objects(rules) ==
    LET withGroups == SelectSeq(rules, HasGroups)
    IN [lists |-> [a \in DOMAIN withGroups |-> withGroups[a].groups],
        all_tenant_rules |-> <<>>]

\* the address of all_tenant_rules[tenant]["groups"]
BundleRef(h, tenant) ==
    LET i == CHOOSE j \in DOMAIN h.all_tenant_rules :
                 h.all_tenant_rules[j].tenant = tenant
    IN h.all_tenant_rules[i].groups

\* (variant) the default {"groups": []} is one object made once: every new
\* tenant is bound to the same list
setdefault_shared(h, tenant) ==
    IF HasKey(h.all_tenant_rules, tenant) THEN h
    ELSE IF h.all_tenant_rules = <<>>
         THEN [lists |-> Append(h.lists, <<>>),
               all_tenant_rules |->
                   <<[tenant |-> tenant, groups |-> Len(h.lists) + 1]>>]
         ELSE [h EXCEPT !.all_tenant_rules =
                   Append(@, [tenant |-> tenant,
                              groups |-> h.all_tenant_rules[1].groups])]

\* line 75 on objects: for a new tenant the expression {"groups": []} makes a
\* new empty list, to which the new entry refers
setdefault_objects(h, tenant) ==
    IF HasKey(h.all_tenant_rules, tenant) THEN h
    ELSE [lists |-> Append(h.lists, <<>>),
          all_tenant_rules |->
              Append(h.all_tenant_rules,
                     [tenant |-> tenant, groups |-> Len(h.lists) + 1])]

\* the items read from the list rules[k]["spec"]["groups"] as the heap holds
\* it now
spec_groups_objects(h, rules, k) ==
    IF rules[k].hasGroups THEN h.lists[GroupsRef(rules, k)] ELSE <<>>

\* line 76 on objects: the tenant's list is extended in place by the items
\* read from the argument, which is only read
extend_objects(h, tenant, items) ==
    [h EXCEPT !.lists[BundleRef(h, tenant)] = @ \o items]

\* lines 66-76 on objects, up to the return or the KeyError of line 76
RECURSIVE LoopObjects(_, _, _)
LoopObjects(h, rules, k) ==
    IF k > Len(rules) THEN h
    ELSE LET tenant == get_tenant(rules[k]) IN
         IF NotTenant(tenant) THEN LoopObjects(h, rules, k + 1)
         ELSE IF spec_groups(rules[k]).err
              THEN setdefault_objects(h, tenant)
              ELSE LET h1 == setdefault_objects(h, tenant) IN
                   LoopObjects(
                       extend_objects(h1, tenant,
                                      spec_groups_objects(h1, rules, k)),
                       rules, k + 1)

\* get_tenant_rules on objects: line 65 makes a new empty dict
get_tenant_rules_objects(h, rules) ==
    LoopObjects([h EXCEPT !.all_tenant_rules = <<>>], rules, 1)

-----------------------------------------------------------------------------
(* json.dumps / the file handed to "obsctl metrics set" *)

\* json.dumps of a list of opaque objects, as a sequence of tokens
RECURSIVE dumps_list(_)
dumps_list(groups) ==
    IF groups = <<>> THEN <<>>
    ELSE IF Len(groups) = 1 THEN <<groups[1]>>
    ELSE <<groups[1], ",">> \o dumps_list(Tail(groups))

\* json.dumps(rules) for rules = {"groups": [...]}
json_dumps(rules) ==
    <<"{", "groups", ":", "[">> \o dumps_list(rules.groups) \o <<"]", "}">>

\* what a JSON reader makes of a file: the groups, or not a well-formed document
json_loads(text) ==
    LET n == Len(text) IN
    IF /\ n >= 6
       /\ SubSeq(text, 1, 4) = <<"{", "groups", ":", "[">>
       /\ SubSeq(text, n - 1, n) = <<"]", "}">>
       /\ \/ n = 6
          \/ /\ (n - 6) % 2 = 1
             /\ \A i \in 1..(n - 6) :
                    (i % 2 = 0) <=> (text[4 + i] = ",")
    THEN [ok |-> TRUE,
          groups |-> [j \in 1..((n - 5) \div 2) |-> text[3 + 2 * j]]]
    ELSE [ok |-> FALSE, groups |-> <<>>]

NoFile == [exists |-> FALSE, buffer |-> <<>>, disk |-> <<>>]

\* rule_file.write(text): Python buffers the text; a prefix of it may already
\* have been handed to the operating system when the buffer filled up
write(f, text, spilled) ==
    [f EXCEPT !.disk = @ \o SubSeq(text, 1, spilled),
              !.buffer = @ \o SubSeq(text, spilled + 1, Len(text))]

\* (variant) the flush is left out: the buffer stays where it is
flush_omitted(f) == f

\* rule_file.flush(): everything buffered reaches the file
flush(f) == [f EXCEPT !.disk = @ \o f.buffer, !.buffer = <<>>]

-----------------------------------------------------------------------------
(* Exceptions, environment, external commands *)

NoExc == [kind |-> "none", at |-> "none"]

Exc(kind, at) == [kind |-> kind, at |-> at]

\* os.environ: OBSERVATORIUM_URL is set; the four OIDC_* variables are set;
\* SLEEP_DURATION_SECONDS is unset or an integer literal
Envs == [OBSERVATORIUM_URL : BOOLEAN, OIDC : BOOLEAN, SLEEP_OK : BOOLEAN]

\* the obsctl tool's own configuration: contexts registered under the name
\* OBSCTL_CONTEXT (each tagged with the tenant whose sequence registered it),
\* the tenants logged in, and the active context ("" when there is none)
NoContext == [contexts |-> <<>>, logins |-> {}, current |-> ""]

\* one call of run(cmd): the command, the loop's tenant at the time ("" outside
\* the loop), its exit status, the content of --rule.file as the command finds
\* it on disk, and obsctl's active context when it starts
Event(cmd, tenant, ok, file) ==
    [cmd |-> cmd, tenant |-> tenant, ok |-> ok, file |-> file,
     active |-> obsctl.current]

\* the loop variables of "for tenant, rules in tenant_rules.items()"
tenant == tenant_rules[idx].tenant
rules == [groups |-> tenant_rules[idx].groups]

-----------------------------------------------------------------------------
(* Control flow of main() *)

\* (variant) the try block logs in after it has switched the context
Then_swapped(step) ==
    CASE step = "obsctl_context_add" -> "obsctl_context_switch"
      [] step = "obsctl_context_switch" -> "obsctl_login"
      [] step = "obsctl_login" -> "obsctl_metrics_set_rules"
      [] step = "obsctl_metrics_set_rules" -> "obsctl_context_remove"

\* (variant) the try block does not log in
Then_no_login(step) ==
    CASE step = "obsctl_context_add" -> "obsctl_context_switch"
      [] step = "obsctl_login" -> "obsctl_context_switch"
      [] step = "obsctl_context_switch" -> "obsctl_metrics_set_rules"
      [] step = "obsctl_metrics_set_rules" -> "obsctl_context_remove"

\* the statement after a statement of the try block that returned normally;
\* falling off the end of the try block enters the finally block
Then(step) ==
    CASE step = "obsctl_context_add" -> "obsctl_login"
      [] step = "obsctl_login" -> "obsctl_context_switch"
      [] step = "obsctl_context_switch" -> "obsctl_metrics_set_rules"
      [] step = "obsctl_metrics_set_rules" -> "obsctl_context_remove"

\* control passes to a statement, no exception is raised
Goto(step) == /\ pc' = step
              /\ UNCHANGED <<exc, failure>>

\* (variant) main() catches the exception around the body of the while loop
\* and carries on with sleep()
Uncaught_retry(e) == /\ pc' = "sleep"
                     /\ failure' = e
                     /\ exc' = NoExc

\* an exception nothing handles leaves main(): the process ends
Uncaught(e) == /\ pc' = "failed"
               /\ failure' = e
               /\ exc' = NoExc

\* (variant) the exception of the try block is dropped before the cleanup,
\* as "except Exception: pass" would do
Raise_ignored(e) == /\ pc' = "obsctl_context_remove"
                    /\ UNCHANGED <<exc, failure>>

\* (variant) the try block is abandoned without running its finally block
Raise_no_finally(e) == Uncaught(e)

\* an exception raised inside the try block: the finally block runs next
Raise(e) == /\ exc' = e
            /\ pc' = "obsctl_context_remove"
            /\ UNCHANGED failure

\* an exception raised inside the with block: __exit__ runs next
RaiseInWith(e) == /\ exc' = e
                  /\ pc' = "rule_file_close"
                  /\ UNCHANGED failure

\* (variant) the exception in flight is dropped at the end of the finally
\* block, as "except Exception: pass" before it would do
EndFinally_swallow ==
    /\ pc' = "for"
    /\ idx' = idx + 1
    /\ exc' = NoExc
    /\ UNCHANGED failure

\* (variant) sleep() is indented into the for loop: it runs after every tenant
EndFinally_sleeps ==
    IF exc # NoExc THEN Uncaught(exc) /\ UNCHANGED idx
    ELSE Goto("sleep") /\ idx' = idx + 1

\* the end of the finally block: an exception in flight is re-raised, otherwise
\* the for loop goes on with the next item
EndFinally ==
    IF exc # NoExc THEN Uncaught(exc) /\ UNCHANGED idx
    ELSE Goto("for") /\ idx' = idx + 1

\* the effect of a successful "obsctl context api add --name api" issued in
\* the sequence of tenant t, and of "obsctl context api rm --name api"
context_add(o, t) == [o EXCEPT !.contexts = Append(@, t)]

\* (variant) the removal names another context and leaves "api" registered
context_remove_other(o) == o

context_remove(o) == NoContext

-----------------------------------------------------------------------------
(* The program *)

Init ==
    /\ pc = "get_prometheus_rules"
    /\ env \in Envs
    /\ prometheus_rules = <<>>
    /\ tenant_rules = EmptyDict
    /\ idx = 1
    /\ exc = NoExc
    /\ failure = NoExc
    /\ cmds = <<>>
    /\ obsctl = NoContext
    /\ rule_file = NoFile
    /\ heap = NoObjects

\* line 173: prometheus_rules = get_prometheus_rules().  "oc get" fails, or
\* its output is not JSON with an "items" field, or it yields the snapshot.
GetPrometheusRules ==
    /\ pc = "get_prometheus_rules"
    /\ \/ /\ cmds' = <<Event("oc get", "", FALSE, <<>>)>>
          /\ Uncaught(Exc("CalledProcessError", "get_prometheus_rules"))
          /\ UNCHANGED <<prometheus_rules, heap>>
       \/ /\ cmds' = <<Event("oc get", "", TRUE, <<>>)>>
          /\ Uncaught(Exc("MalformedResponse", "get_prometheus_rules"))
          /\ UNCHANGED <<prometheus_rules, heap>>
       \/ /\ cmds' = <<Event("oc get", "", TRUE, <<>>)>>
          /\ \E items \in Snapshots :
                /\ prometheus_rules' = items
                /\ heap' = loads_objects(items)
          /\ Goto("get_tenant_rules")
    /\ UNCHANGED <<env, tenant_rules, idx, obsctl, rule_file>>

\* line 174: tenant_rules = get_tenant_rules(prometheus_rules)
GetTenantRules ==
    /\ pc = "get_tenant_rules"
    /\ LET r == get_tenant_rules(prometheus_rules) IN
         IF r.err
         THEN /\ Uncaught(Exc("KeyError", "get_tenant_rules"))
              /\ UNCHANGED <<tenant_rules, idx>>
         ELSE /\ tenant_rules' = r.map
              /\ idx' = 1
              /\ Goto("for")
    /\ heap' = get_tenant_rules_objects(heap, prometheus_rules)
    /\ UNCHANGED <<env, prometheus_rules, cmds, obsctl, rule_file>>

\* line 175: the for statement takes the next item, or the loop is over
For ==
    /\ pc = "for"
    /\ Goto(IF idx <= Len(tenant_rules) THEN "obsctl_context_add" ELSE "sleep")
    /\ UNCHANGED <<heap, env, prometheus_rules, tenant_rules, idx, cmds, obsctl,
                   rule_file>>

\* line 177: obsctl_context_add(); os.environ["OBSERVATORIUM_URL"] is read
\* while the command line is built
ObsctlContextAdd ==
    /\ pc = "obsctl_context_add"
    /\ IF ~env.OBSERVATORIUM_URL
       THEN /\ Raise(Exc("KeyError", "obsctl_context_add"))
            /\ UNCHANGED <<cmds, obsctl>>
       ELSE \E ok \in BOOLEAN :
            /\ cmds' = Append(cmds, Event("context add", tenant, ok, <<>>))
            /\ IF ok
               THEN /\ obsctl' = context_add(obsctl, tenant)
                    /\ Goto(Then("obsctl_context_add"))
               ELSE /\ Raise(Exc("CalledProcessError", "obsctl_context_add"))
                    /\ UNCHANGED obsctl
    /\ UNCHANGED <<heap, env, prometheus_rules, tenant_rules, idx, rule_file>>

\* line 178: obsctl_login(tenant); the OIDC_* variables are read first
ObsctlLogin ==
    /\ pc = "obsctl_login"
    /\ IF ~env.OIDC
       THEN /\ Raise(Exc("KeyError", "obsctl_login"))
            /\ UNCHANGED <<cmds, obsctl>>
       ELSE \E ok \in BOOLEAN :
            /\ cmds' = Append(cmds, Event("login", tenant, ok, <<>>))
            /\ IF ok
               THEN /\ obsctl' = [obsctl EXCEPT !.logins = @ \cup {tenant}]
                    /\ Goto(Then("obsctl_login"))
               ELSE /\ Raise(Exc("CalledProcessError", "obsctl_login"))
                    /\ UNCHANGED obsctl
    /\ UNCHANGED <<heap, env, prometheus_rules, tenant_rules, idx, rule_file>>

\* line 179: obsctl_context_switch(tenant), to "api/<tenant>"
ObsctlContextSwitch ==
    /\ pc = "obsctl_context_switch"
    /\ \E ok \in BOOLEAN :
         /\ cmds' = Append(cmds, Event("context switch", tenant, ok, <<>>))
         /\ IF ok
            THEN /\ obsctl' = [obsctl EXCEPT !.current = tenant]
                 /\ Goto(Then("obsctl_context_switch"))
            ELSE /\ Raise(Exc("CalledProcessError", "obsctl_context_switch"))
                 /\ UNCHANGED obsctl
    /\ UNCHANGED <<heap, env, prometheus_rules, tenant_rules, idx, rule_file>>

\* lines 180, 153: obsctl_metrics_set_rules(tenant, rules) creates the
\* temporary file, or fails to
RuleFileOpen ==
    /\ pc = "obsctl_metrics_set_rules"
    /\ \/ /\ rule_file' = [exists |-> TRUE, buffer |-> <<>>, disk |-> <<>>]
          /\ Goto("rule_file_write")
       \/ /\ Raise(Exc("OSError", "obsctl_metrics_set_rules"))
          /\ UNCHANGED rule_file
    /\ UNCHANGED <<heap, env, prometheus_rules, tenant_rules, idx, cmds, obsctl>>

\* line 154: rule_file.write(json.dumps(rules))
RuleFileWrite ==
    /\ pc = "rule_file_write"
    /\ LET text == json_dumps(rules) IN
         \E spilled \in 0..(Len(text) - 1) :
            rule_file' = write(rule_file, text, spilled)
    /\ Goto("rule_file_flush")
    /\ UNCHANGED <<heap, env, prometheus_rules, tenant_rules, idx, cmds, obsctl>>

\* line 155: rule_file.flush(), which fails when the disk is full
RuleFileFlush ==
    /\ pc = "rule_file_flush"
    /\ \/ /\ rule_file' = flush(rule_file)
          /\ Goto("metrics_set")
       \/ /\ RaiseInWith(Exc("OSError", "obsctl_metrics_set_rules"))
          /\ UNCHANGED rule_file
    /\ UNCHANGED <<heap, env, prometheus_rules, tenant_rules, idx, cmds, obsctl>>

\* lines 156-157: run(["obsctl", "metrics", "set", "--rule.file", name]); the
\* command reads what is on disk
MetricsSet ==
    /\ pc = "metrics_set"
    /\ \E ok \in BOOLEAN :
         /\ cmds' = Append(cmds, Event("metrics set", tenant, ok,
                                       rule_file.disk))
         /\ IF ok
            THEN Goto("rule_file_close")
            ELSE RaiseInWith(Exc("CalledProcessError",
                                 "obsctl_metrics_set_rules"))
    /\ UNCHANGED <<heap, env, prometheus_rules, tenant_rules, idx, obsctl,
                   rule_file>>

\* line 153, leaving the with block: the temporary file is closed and deleted
RuleFileClose ==
    /\ pc = "rule_file_close"
    /\ rule_file' = NoFile
    /\ Goto(IF exc # NoExc THEN "obsctl_context_remove"
            ELSE Then("obsctl_metrics_set_rules"))
    /\ UNCHANGED <<heap, env, prometheus_rules, tenant_rules, idx, cmds, obsctl>>

\* lines 181-182: finally: obsctl_context_remove()
ObsctlContextRemove ==
    /\ pc = "obsctl_context_remove"
    /\ \E ok \in BOOLEAN :
         /\ cmds' = Append(cmds, Event("context rm", tenant, ok, <<>>))
         /\ IF ok
            THEN /\ obsctl' = context_remove(obsctl)
                 /\ EndFinally
            ELSE /\ Uncaught(Exc("CalledProcessError",
                                 "obsctl_context_remove"))
                 /\ UNCHANGED <<obsctl, idx>>
    /\ UNCHANGED <<heap, env, prometheus_rules, tenant_rules, rule_file>>

\* line 183: sleep(); int() of SLEEP_DURATION_SECONDS, then time.sleep, after
\* which the while loop starts the next cycle
Sleep ==
    /\ pc = "sleep"
    /\ IF ~env.SLEEP_OK
       THEN /\ Uncaught(Exc("ValueError", "sleep"))
            /\ UNCHANGED cmds
       ELSE /\ cmds' = Append(cmds, Event("sleep", "", TRUE, <<>>))
            /\ Goto("get_prometheus_rules")
    /\ UNCHANGED <<heap, env, prometheus_rules, tenant_rules, idx, obsctl,
                   rule_file>>

Next ==
    \/ GetPrometheusRules
    \/ GetTenantRules
    \/ For
    \/ ObsctlContextAdd
    \/ ObsctlLogin
    \/ ObsctlContextSwitch
    \/ RuleFileOpen
    \/ RuleFileWrite
    \/ RuleFileFlush
    \/ MetricsSet
    \/ RuleFileClose
    \/ ObsctlContextRemove
    \/ Sleep

Spec == Init /\ [][Next]_vars

\* get_tenant_rules on its own: any input list, one application
AggInit ==
    /\ pc = "get_tenant_rules"
    /\ env = [OBSERVATORIUM_URL |-> TRUE, OIDC |-> TRUE, SLEEP_OK |-> TRUE]
    /\ prometheus_rules \in AggInputs
    /\ tenant_rules = EmptyDict
    /\ idx = 1
    /\ exc = NoExc
    /\ failure = NoExc
    /\ cmds = <<[cmd |-> "oc get", tenant |-> "", ok |-> TRUE, file |-> <<>>,
                 active |-> ""]>>
    /\ obsctl = NoContext
    /\ rule_file = NoFile
    /\ heap = loads_objects(prometheus_rules)

AggNext == GetTenantRules

AggSpec == AggInit /\ [][AggNext]_vars

-----------------------------------------------------------------------------
(* Vocabulary of the properties *)

TrySteps == {"obsctl_context_add", "obsctl_login", "obsctl_context_switch",
             "obsctl_metrics_set_rules"}

\* control is inside the try block of the current tenant
InTry == pc \in TrySteps \cup {"rule_file_write", "rule_file_flush",
                               "metrics_set", "rule_file_close"}

\* the process ended while the tenant at idx was being published
FailedInTenant ==
    /\ pc = "failed"
    /\ failure.at \in TrySteps \cup {"obsctl_context_remove"}

\* tenant_rules is the mapping of the cycle whose commands cmds holds
InPublish ==
    \/ InTry
    \/ pc \in {"for", "obsctl_context_remove", "sleep"}
    \/ FailedInTenant
    \/ pc = "failed" /\ failure.at = "sleep"

TenantAt(i) == tenant_rules[i].tenant

\* the try statement has been entered for the i-th tenant of the mapping
Started(i) ==
    \/ i < idx
    \/ i = idx /\ (InTry \/ pc = "obsctl_context_remove" \/ FailedInTenant)

\* the try ... finally statement of the i-th tenant has been left
Left(i) == i < idx \/ (i = idx /\ FailedInTenant)

\* positions of cmds that hold the command c issued for tenant t
Calls(c, t) == { k \in DOMAIN cmds : cmds[k].cmd = c /\ cmds[k].tenant = t }

\* positions of cmds issued for tenant t
CallsFor(t) == { k \in DOMAIN cmds : cmds[k].tenant = t }

TryCmds == {"context add", "login", "context switch", "metrics set"}

-----------------------------------------------------------------------------
(* C1 *)

\* C1: for every tenant whose publish sequence is started in a cycle the
\* context-removal command is invoked exactly once, whatever the outcome of
\* context add, login, context switch and rule submission: never twice, once
\* as soon as the tenant's try statement has been left, and before any
\* command of a later tenant.
C1_RemoveExactlyOnce ==
    InPublish =>
        \A i \in DOMAIN tenant_rules :
            /\ Cardinality(Calls("context rm", TenantAt(i))) <= 1
            /\ Left(i) => Cardinality(Calls("context rm", TenantAt(i))) = 1
            /\ ~Started(i) => CallsFor(TenantAt(i)) = {}
            /\ \A j \in DOMAIN tenant_rules : \A k \in CallsFor(TenantAt(j)) :
                   i < j => \E m \in Calls("context rm", TenantAt(i)) : m < k

\* a rule submission failed for the second tenant of a cycle, and the context
\* was removed once for each of the two tenants
C1_Witness ==
    /\ pc = "failed"
    /\ idx = 2
    /\ failure = Exc("CalledProcessError", "obsctl_metrics_set_rules")
    /\ \E k \in Calls("metrics set", TenantAt(2)) : ~cmds[k].ok
    /\ Cardinality(Calls("context rm", TenantAt(1))) = 1
    /\ Cardinality(Calls("context rm", TenantAt(2))) = 1

-----------------------------------------------------------------------------
(* C2 *)

\* C2 (as stated): a failure of context add, login, context switch or rule
\* submission for one tenant does not abort the remaining tenants: when the
\* process has stopped after such a failure, every other tenant of the
\* cycle's mapping has had its own publish sequence, context removal included.
C2_Original ==
    (pc = "failed" /\ failure.at \in TrySteps) =>
        \A i \in DOMAIN tenant_rules :
            i # idx => Calls("context rm", TenantAt(i)) # {}

\* C2 (amended): such a failure aborts the remaining tenants of the cycle.
\* After a failed command of the try block the only command still issued is
\* the context removal of the same tenant; control is then in the cleanup or
\* the process has ended; and when the process has ended with an exception of
\* the try block, no tenant after the failing one has received any command.
C2_FailureAbortsRemainingTenants ==
    /\ \A k \in DOMAIN cmds :
          (cmds[k].cmd \in TryCmds /\ ~cmds[k].ok) =>
              /\ pc \in {"rule_file_close", "obsctl_context_remove", "failed"}
              /\ \A m \in DOMAIN cmds :
                    m > k => /\ cmds[m].cmd = "context rm"
                             /\ cmds[m].tenant = cmds[k].tenant
    /\ exc # NoExc => pc \in {"rule_file_close", "obsctl_context_remove"}
    /\ (pc = "failed" /\ failure.at \in TrySteps) =>
          \A i \in DOMAIN tenant_rules :
              i > idx => CallsFor(TenantAt(i)) = {}

\* the login of the first of two tenants failed; the process ended after the
\* context removal, the second tenant untouched
C2_Witness ==
    /\ pc = "failed"
    /\ failure = Exc("CalledProcessError", "obsctl_login")
    /\ idx = 1
    /\ Len(tenant_rules) = 2
    /\ Calls("context rm", TenantAt(1)) # {}
    /\ CallsFor(TenantAt(2)) = {}

-----------------------------------------------------------------------------
(* C3 *)

\* C3: within a cycle the commands are issued in the order reader, then per
\* tenant context add, login, context switch, rule submission, context
\* removal; a command of the try block directly follows the successful
\* previous command of the same tenant; the context removal follows whatever
\* the tenant's last command was; and the commands of one tenant are
\* contiguous (none of another tenant between them).
C3_CommandOrder ==
    /\ \A k \in DOMAIN cmds :
          /\ (k = 1) <=> (cmds[k].cmd = "oc get")
          /\ cmds[k].cmd \in TryCmds \cup {"oc get", "context rm", "sleep"}
          /\ (cmds[k].tenant = "") <=> (cmds[k].cmd \in {"oc get", "sleep"})
          /\ k > 1 =>
               LET e == cmds[k]
                   p == cmds[k - 1]
                   first == /\ p.cmd \in {"oc get", "context rm"}
                            /\ p.ok
                            /\ p.tenant # e.tenant
                   after(c) == p.cmd = c /\ p.ok /\ p.tenant = e.tenant
               IN /\ e.cmd = "context add" => first
                  /\ e.cmd = "login" => after("context add")
                  /\ e.cmd = "context switch" => after("login")
                  /\ e.cmd = "metrics set" => after("context switch")
                  /\ e.cmd = "context rm" =>
                        \/ p.tenant = e.tenant /\ p.cmd \in TryCmds
                        \/ first
                  /\ e.cmd = "sleep" =>
                        /\ k = Len(cmds)
                        /\ p.ok
                        /\ p.cmd \in {"oc get", "context rm"}
    /\ \A k1, k2, k3 \in DOMAIN cmds :
          (/\ k1 < k2 /\ k2 < k3
           /\ cmds[k1].tenant # ""
           /\ cmds[k1].tenant = cmds[k3].tenant) =>
              cmds[k2].tenant = cmds[k1].tenant

\* a cycle that published two tenants without any failure
C3_Witness ==
    /\ pc = "sleep"
    /\ Len(tenant_rules) = 2
    /\ Len(cmds) = 11
    /\ \A k \in DOMAIN cmds : cmds[k].ok
    /\ cmds[7].cmd = "context add" /\ cmds[7].tenant = TenantAt(2)

-----------------------------------------------------------------------------
(* C4 *)

\* the reader or the aggregator of the current cycle has failed
ReaderOrAggregatorFailed ==
    \/ failure.at \in {"get_prometheus_rules", "get_tenant_rules"}
    \/ cmds # <<>> /\ ~cmds[1].ok

\* C4 (as stated): after a failure of the reader or of the aggregator the
\* program goes on: it is waiting in sleep() or has begun the next cycle.
C4_Original ==
    ReaderOrAggregatorFailed => pc \in {"sleep", "get_prometheus_rules"}

\* C4 (amended): after a failure of the reader or of the aggregator the cycle
\* is aborted with no publish command issued for it (the reader's command is
\* the only one of the cycle) and the process ends with that error: it does
\* not sleep and starts no new cycle.  Publish commands and sleep occur only
\* in cycles whose snapshot was aggregated without error.
C4_ReaderFailureEndsProcess ==
    /\ ReaderOrAggregatorFailed =>
          /\ pc = "failed"
          /\ Len(cmds) = 1
          /\ cmds[1].cmd = "oc get"
          /\ ~(ENABLED Next)
    /\ Len(cmds) > 1 => ~get_tenant_rules(prometheus_rules).err

\* the aggregator failed on a snapshot holding a labelled resource without
\* spec.groups, in a cycle after the first
C4_Witness ==
    /\ pc = "failed"
    /\ failure = Exc("KeyError", "get_tenant_rules")
    /\ get_tenant_rules(prometheus_rules).err
    /\ tenant_rules # EmptyDict

-----------------------------------------------------------------------------
(* Vocabulary of the properties of get_tenant_rules *)

\* the resource carries a tenant label
Labelled(r) == r.hasLabels /\ r.hasTenant

\* the resource carries a tenant label that is not the empty string
Tenanted(r) == Labelled(r) /\ r.tenant # ""

Range(f) == { f[i] : i \in DOMAIN f }

\* get_tenant_rules has returned tenant_rules for prometheus_rules
Aggregated == pc = "for"

\* get_tenant_rules has raised on prometheus_rules
AggregationFailed == pc = "failed" /\ failure.at = "get_tenant_rules"

\* spec.groups of the resources of rs labelled t, one after the other
RECURSIVE GroupsOf(_, _)
GroupsOf(rs, t) ==
    IF rs = <<>> THEN <<>>
    ELSE (IF Labelled(Head(rs)) /\ Head(rs).tenant = t
          THEN Head(rs).groups ELSE <<>>) \o GroupsOf(Tail(rs), t)

\* number of rule groups of the resources at the positions K of rs
RECURSIVE CountGroups(_, _)
CountGroups(rs, K) ==
    IF K = {} THEN 0
    ELSE LET k == CHOOSE x \in K : TRUE
         IN Len(rs[k].groups) + CountGroups(rs, K \ {k})

-----------------------------------------------------------------------------
(* C5 *)

\* C5 (as stated): the number of keys of the mapping equals the number of
\* distinct tenant values among the resources that carry a tenant label.
C5_Original ==
    Aggregated =>
        Len(tenant_rules) =
            Cardinality({ r.tenant : r \in { x \in Range(prometheus_rules) :
                                               Labelled(x) } })

\* C5 (amended): the mapping has no contribution from a resource without a
\* tenant label (label absent or metadata.labels absent) nor from one whose
\* tenant label is the empty string: its keys are exactly the distinct
\* non-empty tenant values, each once, and it holds as many groups as the
\* resources with a non-empty tenant label have; and such a resource never
\* raises an error: get_tenant_rules fails only on a list with a resource
\* that has a non-empty tenant label and no spec.groups.
C5_UnlabelledExcluded ==
    LET tenanted == { k \in DOMAIN prometheus_rules :
                        Tenanted(prometheus_rules[k]) }
        values == { prometheus_rules[k].tenant : k \in tenanted }
    IN /\ Aggregated =>
            /\ { tenant_rules[i].tenant : i \in DOMAIN tenant_rules } = values
            /\ Len(tenant_rules) = Cardinality(values)
            /\ CountGroups(tenant_rules, DOMAIN tenant_rules)
                   = CountGroups(prometheus_rules, tenanted)
       /\ AggregationFailed =>
            \E k \in tenanted : ~prometheus_rules[k].hasGroups

\* a list with a resource without metadata.labels and without spec.groups, a
\* resource with labels but no tenant label, and a resource of tenant t1
C5_Witness ==
    /\ Aggregated
    /\ Len(tenant_rules) = 1
    /\ \E i, j, k \in DOMAIN prometheus_rules :
          /\ ~prometheus_rules[i].hasLabels /\ ~prometheus_rules[i].hasGroups
          /\ prometheus_rules[j].hasLabels /\ ~prometheus_rules[j].hasTenant
          /\ prometheus_rules[j].groups # <<>>
          /\ prometheus_rules[k].tenant = "t1"

-----------------------------------------------------------------------------
(* C6 *)

\* C6: for every tenant t of the returned mapping, the groups list of t's
\* bundle is the concatenation, in input order, of spec.groups of the
\* resources labelled t, duplicates kept; its length is the sum of the
\* lengths of those lists.
C6_Concatenation ==
    Aggregated =>
        \A i \in DOMAIN tenant_rules :
            LET t == tenant_rules[i].tenant
                of_t == { k \in DOMAIN prometheus_rules :
                            /\ Labelled(prometheus_rules[k])
                            /\ prometheus_rules[k].tenant = t }
            IN /\ tenant_rules[i].groups = GroupsOf(prometheus_rules, t)
               /\ Len(tenant_rules[i].groups)
                      = CountGroups(prometheus_rules, of_t)

\* a(t1, [g1]), b(no tenant label, [g2, g1]), c(t1, [g2, g1]) give
\* {t1: {groups: [g1, g2, g1]}}
C6_Witness ==
    /\ Aggregated
    /\ Len(prometheus_rules) = 3
    /\ prometheus_rules[1].tenant = "t1" /\ prometheus_rules[1].groups = <<"g1">>
    /\ ~Labelled(prometheus_rules[2]) /\ prometheus_rules[2].groups = <<"g2", "g1">>
    /\ prometheus_rules[3].tenant = "t1"
    /\ prometheus_rules[3].groups = <<"g2", "g1">>
    /\ tenant_rules = <<[tenant |-> "t1", groups |-> <<"g1", "g2", "g1">>]>>

-----------------------------------------------------------------------------
(* C7 *)

\* C7 (as stated): if any resource of the input list lacks spec.groups,
\* get_tenant_rules fails.
C7_Original ==
    (/\ pc # "get_tenant_rules"
     /\ \E k \in DOMAIN prometheus_rules : ~prometheus_rules[k].hasGroups)
        => AggregationFailed

\* C7 (amended): if any resource of the input list that carries a non-empty
\* tenant label lacks spec.groups, get_tenant_rules fails as a whole (KeyError,
\* no mapping returned); such a resource is never skipped and never yields an
\* empty groups list.  A resource without a non-empty tenant label is skipped
\* before its spec.groups is read, so its lacking spec.groups fails nothing.
C7_MissingGroupsOfTenantFails ==
    LET bad == \E k \in DOMAIN prometheus_rules :
                   /\ Tenanted(prometheus_rules[k])
                   /\ ~prometheus_rules[k].hasGroups
    IN pc # "get_tenant_rules" =>
          /\ bad => /\ AggregationFailed
                    /\ failure.kind = "KeyError"
                    /\ tenant_rules = EmptyDict
          /\ ~bad => Aggregated

\* the second resource of tenant t1 lacks spec.groups, the first has groups
C7_Witness ==
    /\ AggregationFailed
    /\ Len(prometheus_rules) >= 2
    /\ prometheus_rules[1].tenant = "t1" /\ prometheus_rules[1].groups # <<>>
    /\ prometheus_rules[2].tenant = "t1" /\ ~prometheus_rules[2].hasGroups

-----------------------------------------------------------------------------
(* C8 *)

WithSteps == {"rule_file_write", "rule_file_flush", "metrics_set",
              "rule_file_close"}

\* C8: what "obsctl metrics set" finds in the rule file is the complete JSON
\* of the tenant's bundle; when the command is about to be invoked nothing is
\* left in the buffer; and outside the with block of
\* obsctl_metrics_set_rules the temporary file does not exist, whichever way
\* the block was left.
C8_RuleFileFlushedAndRemoved ==
    /\ \A k \in DOMAIN cmds :
          cmds[k].cmd = "metrics set" =>
              \E i \in DOMAIN tenant_rules :
                  /\ TenantAt(i) = cmds[k].tenant
                  /\ json_loads(cmds[k].file)
                         = [ok |-> TRUE, groups |-> tenant_rules[i].groups]
    /\ pc = "metrics_set" =>
          /\ rule_file.exists
          /\ rule_file.buffer = <<>>
          /\ json_loads(rule_file.disk) = [ok |-> TRUE, groups |-> rules.groups]
    /\ pc \notin WithSteps => ~rule_file.exists

\* the external command failed on a file holding a bundle of three groups;
\* the with block has been left and the file is gone
C8_Witness ==
    /\ pc = "obsctl_context_remove"
    /\ exc = Exc("CalledProcessError", "obsctl_metrics_set_rules")
    /\ ~rule_file.exists
    /\ cmds[Len(cmds)].cmd = "metrics set"
    /\ ~cmds[Len(cmds)].ok
    /\ json_loads(cmds[Len(cmds)].file).groups = <<"g1", "g2", "g1">>

-----------------------------------------------------------------------------
(* C9 *)

\* the command run by a function of the program
CmdOf(at) ==
    CASE at = "get_prometheus_rules" -> "oc get"
      [] at = "obsctl_context_add" -> "context add"
      [] at = "obsctl_login" -> "login"
      [] at = "obsctl_context_switch" -> "context switch"
      [] at = "obsctl_metrics_set_rules" -> "metrics set"
      [] at = "obsctl_context_remove" -> "context rm"
      [] OTHER -> "none"

\* no failed invocation is followed by the program going on as if it had
\* succeeded: the exception is unwinding through the cleanup, or the process
\* has ended with an error
NoFailureSwallowed ==
    \A k \in DOMAIN cmds :
        ~cmds[k].ok =>
            \/ pc = "failed" /\ failure # NoExc
            \/ exc # NoExc /\ pc \in {"rule_file_close", "obsctl_context_remove"}

\* C9 (as stated): every failing external-tool invocation ends in an error
\* outcome of the process, and the process never terminates unless such a
\* failure occurs.
C9_Original ==
    /\ NoFailureSwallowed
    /\ pc # "failed" => ENABLED Next
    /\ pc = "failed" => \E k \in DOMAIN cmds : ~cmds[k].ok

\* C9 (amended): every failing external-tool invocation ends in an error
\* outcome of the process and none is swallowed; the process never terminates
\* unless a step raises: a failing external invocation, or a reader output
\* that is not the expected JSON, a resource with a non-empty tenant label and
\* no spec.groups, a missing OBSERVATORIUM_URL or OIDC_* variable, an I/O error
\* on the temporary rule file, or a SLEEP_DURATION_SECONDS that is no integer.
C9_TerminatesOnlyOnFailure ==
    /\ NoFailureSwallowed
    /\ pc # "failed" => ENABLED Next
    /\ pc = "failed" =>
          \/ /\ failure.kind = "CalledProcessError"
             /\ \E k \in DOMAIN cmds :
                   ~cmds[k].ok /\ cmds[k].cmd = CmdOf(failure.at)
          \/ /\ failure = Exc("MalformedResponse", "get_prometheus_rules")
             /\ Len(cmds) = 1 /\ cmds[1].ok
          \/ /\ failure = Exc("KeyError", "get_tenant_rules")
             /\ \E k \in DOMAIN prometheus_rules :
                   /\ Tenanted(prometheus_rules[k])
                   /\ ~prometheus_rules[k].hasGroups
          \/ /\ failure = Exc("KeyError", "obsctl_context_add")
             /\ ~env.OBSERVATORIUM_URL
          \/ /\ failure = Exc("KeyError", "obsctl_login")
             /\ ~env.OIDC
          \/ failure = Exc("OSError", "obsctl_metrics_set_rules")
          \/ /\ failure = Exc("ValueError", "sleep")
             /\ ~env.SLEEP_OK

\* the context switch failed and then the context removal failed too: the
\* process ended with the error of the removal
C9_Witness ==
    /\ pc = "failed"
    /\ failure = Exc("CalledProcessError", "obsctl_context_remove")
    /\ Len(cmds) >= 2
    /\ cmds[Len(cmds)].cmd = "context rm" /\ ~cmds[Len(cmds)].ok
    /\ cmds[Len(cmds) - 1].cmd = "context switch" /\ ~cmds[Len(cmds) - 1].ok

-----------------------------------------------------------------------------
(* C10 *)

\* C10: the context name is torn down before it is reused: at most one
\* context registered by the process exists, it was registered in the
\* sequence of the tenant being processed, none exists when context add is
\* about to be invoked, and between a successful context add and the next
\* context add lies a successful removal of the former.
C10_ContextTornDownBeforeReuse ==
    /\ Len(obsctl.contexts) <= 1
    /\ obsctl.contexts # <<>> =>
          /\ idx \in DOMAIN tenant_rules
          /\ obsctl.contexts = <<tenant>>
          /\ InTry \/ pc = "obsctl_context_remove" \/ FailedInTenant
    /\ pc = "obsctl_context_add" => obsctl.contexts = <<>>
    /\ \A k1, k2 \in DOMAIN cmds :
          (/\ k1 < k2
           /\ cmds[k1].cmd = "context add" /\ cmds[k1].ok
           /\ cmds[k2].cmd = "context add") =>
              \E m \in DOMAIN cmds :
                  /\ k1 < m /\ m < k2
                  /\ cmds[m].cmd = "context rm" /\ cmds[m].ok
                  /\ cmds[m].tenant = cmds[k1].tenant

\* the context is registered for the second tenant of a cycle after it was
\* registered and removed for the first
C10_Witness ==
    /\ pc = "obsctl_login"
    /\ idx = 2
    /\ obsctl.contexts = <<TenantAt(2)>>
    /\ \E k \in Calls("context add", TenantAt(1)) : cmds[k].ok
    /\ \E k \in Calls("context rm", TenantAt(1)) : cmds[k].ok

-----------------------------------------------------------------------------
(* C11 *)

\* the i-th tenant of the mapping has had its five commands, all successful
Published(i) ==
    \A c \in TryCmds \cup {"context rm"} :
        /\ Cardinality(Calls(c, TenantAt(i))) = 1
        /\ \A k \in Calls(c, TenantAt(i)) : cmds[k].ok

\* sleep is invoked only at the end of a cycle: once, as the last command of
\* the cycle, never before the first reader call, and the reader is what
\* runs next
SleepOnlyBetweenCycles ==
    /\ pc = "sleep" =>
          /\ idx = Len(tenant_rules) + 1
          /\ \A i \in DOMAIN tenant_rules : Published(i)
          /\ \A k \in DOMAIN cmds : cmds[k].cmd # "sleep"
    /\ \A k \in DOMAIN cmds :
          cmds[k].cmd = "sleep" =>
              /\ k = Len(cmds)
              /\ k > 1
              /\ pc = "get_prometheus_rules"
    /\ pc = "get_prometheus_rules" =>
          \/ cmds = <<>>
          \/ cmds[Len(cmds)].cmd = "sleep"

\* C11 (as stated): when no external invocation fails the program loops
\* forever: as long as every command issued has succeeded, the process has
\* not ended; and sleep is invoked only between cycles.
C11_Original ==
    /\ (\A k \in DOMAIN cmds : cmds[k].ok) => pc # "failed"
    /\ SleepOnlyBetweenCycles

\* C11 (amended): when no step raises (no external invocation fails, the
\* reader's output is the expected JSON, no resource with a non-empty tenant
\* label lacks spec.groups, the environment variables are set and valid, the
\* temporary file is written) the program loops forever: the process ends only
\* with an exception, otherwise a next step is always enabled; every cycle
\* (reader, aggregator, all tenants published) is followed by exactly one
\* sleep and then by a new cycle; sleep is never invoked between two tenants
\* of a cycle nor before the first cycle.
C11_LoopsWithOneSleepPerCycle ==
    /\ pc = "failed" => failure # NoExc
    /\ pc # "failed" => ENABLED Next
    /\ SleepOnlyBetweenCycles

\* a cycle that published two tenants has slept and the reader is next
C11_Witness ==
    /\ pc = "get_prometheus_rules"
    /\ Len(cmds) = 12
    /\ cmds[12].cmd = "sleep"
    /\ Len(tenant_rules) = 2
    /\ \A i \in DOMAIN tenant_rules : Published(i)

-----------------------------------------------------------------------------
(* C13 *)

\* C13: for the empty input list get_tenant_rules returns the empty mapping
\* without error, and a cycle whose mapping is empty issues no context add,
\* login, context switch, rule submission or context removal: the reader's
\* command is its only command before sleep, and sleep the only one after.
C13_EmptyMappingPublishesNothing ==
    /\ (pc # "get_tenant_rules" /\ prometheus_rules = <<>>) =>
          /\ tenant_rules = EmptyDict
          /\ ~AggregationFailed
    /\ (InPublish /\ tenant_rules = EmptyDict) =>
          /\ pc \in {"for", "sleep", "failed"}
          /\ Len(cmds) = 1
          /\ cmds[1].cmd = "oc get"
    /\ (/\ pc = "get_prometheus_rules"
        /\ cmds # <<>>
        /\ tenant_rules = EmptyDict) =>
          /\ Len(cmds) = 2
          /\ cmds[1].cmd = "oc get"
          /\ cmds[2].cmd = "sleep"

\* the reader returned the empty list, the cycle has slept, and its only
\* commands are the reader's and sleep
C13_Witness ==
    /\ pc = "get_prometheus_rules"
    /\ prometheus_rules = <<>>
    /\ tenant_rules = EmptyDict
    /\ Len(cmds) = 2
    /\ cmds[2].cmd = "sleep"

-----------------------------------------------------------------------------
(* C14 *)

\* the groups of the bundles of the mapping m
GroupsIn(m) == UNION { Range(m[i].groups) : i \in DOMAIN m }

\* C14: the bundles of a cycle depend only on the snapshot read in that
\* cycle.  The step that builds the mapping, whatever mapping the previous
\* cycle left in tenant_rules, yields for every tenant exactly the groups of
\* the snapshot's resources labelled with it: no group of an earlier cycle is
\* carried over.
C14_RebuiltFromSnapshot ==
    [][(pc = "get_tenant_rules" /\ pc' = "for") =>
          \A i \in DOMAIN tenant_rules' :
              tenant_rules'[i].groups =
                  GroupsOf(prometheus_rules, tenant_rules'[i].tenant)]_vars

\* the mapping is about to be rebuilt in a later cycle: the bundle of t1 left
\* by the previous cycle holds g2, the snapshot just read labels a resource t1
\* and holds no g2
C14_Witness ==
    /\ pc = "get_tenant_rules"
    /\ "g2" \in GroupsIn(tenant_rules)
    /\ HasKey(tenant_rules, "t1")
    /\ \E k \in DOMAIN prometheus_rules :
          /\ prometheus_rules[k].tenant = "t1"
          /\ prometheus_rules[k].groups = <<"g1">>
    /\ \A k \in DOMAIN prometheus_rules :
          "g2" \notin Range(prometheus_rules[k].groups)

-----------------------------------------------------------------------------
(* C15 *)

\* the groups of the bundle of tenant t
BundleOf(t) ==
    LET i == CHOOSE j \in DOMAIN tenant_rules : tenant_rules[j].tenant = t
    IN tenant_rules[i].groups

\* C15: every rule submission is issued while the active context is the one
\* of the tenant whose bundle is in the submitted file: it directly follows
\* the successful context add, login as that tenant and switch to that
\* tenant's context of the same sequence, obsctl's active context is that
\* tenant's, and nobody else is logged in.
C15_SubmittedUnderOwnLogin ==
    /\ \A k \in DOMAIN cmds :
          cmds[k].cmd = "metrics set" =>
              LET t == cmds[k].tenant
                  prev(n, c) == /\ cmds[k - n].cmd = c
                                /\ cmds[k - n].ok
                                /\ cmds[k - n].tenant = t
              IN /\ k > 3
                 /\ prev(3, "context add")
                 /\ prev(2, "login")
                 /\ prev(1, "context switch")
                 /\ cmds[k].active = t
                 /\ HasKey(tenant_rules, t)
                 /\ json_loads(cmds[k].file).groups = BundleOf(t)
    /\ pc = "metrics_set" =>
          /\ obsctl.current = tenant
          /\ obsctl.logins = {tenant}
          /\ obsctl.contexts = <<tenant>>
          /\ json_loads(rule_file.disk).groups = BundleOf(tenant)

\* the bundle of the second tenant of a cycle was submitted under its own
\* context, after the first tenant's was under the first's
C15_Witness ==
    /\ idx = 2
    /\ pc = "rule_file_close"
    /\ \E k \in Calls("metrics set", TenantAt(1)) : cmds[k].active = TenantAt(1)
    /\ \E k \in Calls("metrics set", TenantAt(2)) :
          /\ cmds[k].active = TenantAt(2)
          /\ cmds[k].ok
          /\ cmds[k].file # cmds[5].file

-----------------------------------------------------------------------------
(* C16 *)

\* the distinct tenant labels of rs outside seen, in order of first appearance
RECURSIVE FirstLabels(_, _)
FirstLabels(rs, seen) ==
    IF rs = <<>> THEN <<>>
    ELSE IF Labelled(Head(rs)) /\ Head(rs).tenant \notin seen
         THEN <<Head(rs).tenant>>
                  \o FirstLabels(Tail(rs), seen \cup {Head(rs).tenant})
         ELSE FirstLabels(Tail(rs), seen)

IsContextAdd(e) == e.cmd = "context add"

\* the tenants for which a publish sequence was started, in order
StartedTenants ==
    LET adds == SelectSeq(cmds, IsContextAdd)
    IN [j \in DOMAIN adds |-> adds[j].tenant]

\* in a finished cycle the publish sequences were started for the tenants
\* expected, once each and in that order; each tenant received its whole
\* bundle in one submission; nobody else received a command
PublishedExactly(expected) ==
    pc = "sleep" =>
        /\ StartedTenants = expected
        /\ \A j \in DOMAIN expected :
              /\ Cardinality(Calls("metrics set", expected[j])) = 1
              /\ \A k \in Calls("metrics set", expected[j]) :
                    json_loads(cmds[k].file) =
                        [ok |-> TRUE,
                         groups |-> GroupsOf(prometheus_rules, expected[j])]
        /\ { cmds[k].tenant : k \in DOMAIN cmds } \ {""} = Range(expected)

\* C16: in a cycle without failures a publish sequence is started for exactly
\* the tenants that label at least one resource of the snapshot, once per
\* tenant, in order of first appearance, and submits the tenant's whole bundle
\* in one submission; a tenant labelling no resource of the snapshot receives
\* no command.  (The empty string names no tenant: get_tenant_rules skips a
\* resource labelled with it.)
C16_PublishesLabelledTenantsInOrder ==
    PublishedExactly(FirstLabels(prometheus_rules, {""}))

\* a cycle without failures on a snapshot labelled t2 and then t1
C16_Witness ==
    /\ pc = "sleep"
    /\ Len(prometheus_rules) = 2
    /\ prometheus_rules[1].tenant = "t2" /\ prometheus_rules[1].groups # <<>>
    /\ prometheus_rules[2].tenant = "t1" /\ prometheus_rules[2].groups # <<>>
    /\ StartedTenants = <<"t2", "t1">>

-----------------------------------------------------------------------------
(* C17 *)

\* the tenant label of the resource is present and is the empty string
EmptyLabelled(r) == Labelled(r) /\ r.tenant = ""

\* the list rs with the labels of its empty-labelled resources taken away
Unlabel(rs) ==
    [k \in DOMAIN rs |->
        IF EmptyLabelled(rs[k])
        THEN [rs[k] EXCEPT !.hasLabels = FALSE, !.hasTenant = FALSE]
        ELSE rs[k]]

\* C17: a resource whose tenant label is the empty string is treated by
\* get_tenant_rules exactly like a resource with no tenant label: the call
\* ends as it does on the list in which these resources carry no label, the
\* spec.groups of such a resource is not read (its absence is no failure),
\* and the empty string is never a key of the mapping.
C17_EmptyLabelSkipped ==
    pc # "get_tenant_rules" =>
        LET r == get_tenant_rules(Unlabel(prometheus_rules))
        IN /\ AggregationFailed <=> r.err
           /\ Aggregated => tenant_rules = r.map
           /\ ~HasKey(tenant_rules, "")
           /\ AggregationFailed =>
                 \E k \in DOMAIN prometheus_rules :
                     /\ Tenanted(prometheus_rules[k])
                     /\ ~prometheus_rules[k].hasGroups

\* the call returned a non-empty mapping for a list holding a resource that
\* is labelled with the empty string and has no spec.groups
C17_Witness ==
    /\ Aggregated
    /\ tenant_rules # EmptyDict
    /\ \E k \in DOMAIN prometheus_rules :
          /\ EmptyLabelled(prometheus_rules[k])
          /\ ~prometheus_rules[k].hasGroups

-----------------------------------------------------------------------------
(* C18 *)

\* C18: if the context-removal command fails, the process stops with its
\* error: the failed removal is the last command ever issued, so no further
\* tenant of the cycle is processed (none of the later tenants received a
\* command), there is no sleep, no later cycle and no context add after it.
C18_FailedRemoveStopsProcess ==
    \A k \in DOMAIN cmds :
        (cmds[k].cmd = "context rm" /\ ~cmds[k].ok) =>
            /\ k = Len(cmds)
            /\ pc = "failed"
            /\ failure = Exc("CalledProcessError", "obsctl_context_remove")
            /\ ~ENABLED Next
            /\ cmds[k].tenant = TenantAt(idx)
            /\ \A i \in DOMAIN tenant_rules :
                  i > idx => CallsFor(TenantAt(i)) = {}

\* the removal failed for the first of two tenants after a publish sequence
\* whose commands all succeeded
C18_Witness ==
    /\ pc = "failed"
    /\ failure.at = "obsctl_context_remove"
    /\ Len(tenant_rules) = 2
    /\ idx = 1
    /\ Len(cmds) = 6
    /\ cmds[6].cmd = "context rm" /\ ~cmds[6].ok
    /\ \A k \in 1..5 : cmds[k].ok

-----------------------------------------------------------------------------
(* C19 *)

\* the addresses of the spec.groups lists of the input
InputRefs ==
    { GroupsRef(prometheus_rules, k) :
        k \in { j \in DOMAIN prometheus_rules :
                  prometheus_rules[j].hasGroups } }

\* C19: get_tenant_rules leaves its input unchanged: after the call every
\* spec.groups list of the input has the contents it had before; no bundle's
\* groups list is the list object of an input resource, and no two tenants'
\* bundles are the same list object, so extending one tenant's bundle alters
\* neither an input resource nor another tenant's bundle; the bundle lists
\* hold the contents returned.
C19_InputUnchangedNoAliasing ==
    pc # "get_tenant_rules" =>
        /\ \A k \in DOMAIN prometheus_rules :
              prometheus_rules[k].hasGroups =>
                  heap.lists[GroupsRef(prometheus_rules, k)] =
                      prometheus_rules[k].groups
        /\ \A i \in DOMAIN heap.all_tenant_rules :
              /\ heap.all_tenant_rules[i].groups \in DOMAIN heap.lists
              /\ heap.all_tenant_rules[i].groups \notin InputRefs
              /\ \A j \in DOMAIN heap.all_tenant_rules :
                    i # j => heap.all_tenant_rules[i].groups #
                                 heap.all_tenant_rules[j].groups
        /\ Aggregated =>
              tenant_rules =
                  [i \in DOMAIN heap.all_tenant_rules |->
                      [tenant |-> heap.all_tenant_rules[i].tenant,
                       groups |->
                           heap.lists[heap.all_tenant_rules[i].groups]]]

\* the call returned two bundles, one of them extended from two input lists,
\* and no input list is empty
C19_Witness ==
    /\ Aggregated
    /\ Len(heap.all_tenant_rules) = 2
    /\ Cardinality(InputRefs) = 3
    /\ \A a \in InputRefs : heap.lists[a] # <<>>
    /\ \E i \in DOMAIN heap.all_tenant_rules :
          Len(heap.lists[heap.all_tenant_rules[i].groups]) = 3

====
